---- MODULE Spec2Model ----
(***************************************************************************)
(* Packed binary-tower field arithmetic (PackedStrategy) and the           *)
(* arithmetic-circuit evaluator built on it.                               *)
(*                                                                         *)
(* An underlier of 2^n bits is a natural number below 2^(2^n).  A tower    *)
(* field type F is the record of its associated constants TOWER_LEVEL,     *)
(* N_BITS and DEGREE.  Every operator below is the bitwise computation of  *)
(* the source, on numbers.                                                 *)
(***************************************************************************)
EXTENDS Integers, Sequences, FiniteSets

(***************************************************************************)
(* Underlier bit operations: ^, &, |, <<, >> on an unsigned word of 2^n    *)
(* bits.  A left shift drops the bits that leave the word.                 *)
(***************************************************************************)
BITS(n) == 2^n

RECURSIVE XorBits(_, _)
XorBits(x, y) ==
    IF x = 0 THEN y
    ELSE IF y = 0 THEN x
    ELSE (((x % 2) + (y % 2)) % 2) + 2 * XorBits(x \div 2, y \div 2)

RECURSIVE AndBits(_, _)
AndBits(x, y) ==
    IF x = 0 \/ y = 0 THEN 0
    ELSE ((x % 2) * (y % 2)) + 2 * AndBits(x \div 2, y \div 2)

(* The two operations on 4-bit digits, tabulated; a word of up to 16 bits  *)
(* is four such digits.                                                    *)
XorDigit == [x \in 0..15 |-> [y \in 0..15 |-> XorBits(x, y)]]

AndDigit == [x \in 0..15 |-> [y \in 0..15 |-> AndBits(x, y)]]

XOR(x, y) ==
      XorDigit[x % 16][y % 16]
    + 16 * XorDigit[(x \div 16) % 16][(y \div 16) % 16]
    + 256 * XorDigit[(x \div 256) % 16][(y \div 256) % 16]
    + 4096 * XorDigit[(x \div 4096) % 16][(y \div 4096) % 16]

AND(x, y) ==
      AndDigit[x % 16][y % 16]
    + 16 * AndDigit[(x \div 16) % 16][(y \div 16) % 16]
    + 256 * AndDigit[(x \div 256) % 16][(y \div 256) % 16]
    + 4096 * AndDigit[(x \div 4096) % 16][(y \div 4096) % 16]

OR(x, y) == XOR(x, y) + AND(x, y)

SHL(n, x, k) == (x * (2^k)) % (2^BITS(n))

SHR(x, k) == x \div (2^k)

(***************************************************************************)
(* Tower field types.  Tower(l) is the binary tower field of level l       *)
(* (1, 2, 4, ... bits); its extension degree over GF(2) is 2^l.            *)
(***************************************************************************)
Tower(l) == [TOWER_LEVEL |-> l, N_BITS |-> 2^l, DEGREE |-> 2^l]

(***************************************************************************)
(* The constant generators (macros of the source).                         *)
(***************************************************************************)
(* Mutant of interleave_mask_even_loop: the shift grows by scalar_bits * i *)
(* where the source doubles it (scalar_bits << i).                         *)
RECURSIVE interleave_mask_even_loop_linear(_, _, _, _)
interleave_mask_even_loop_linear(n, tower_level, mask, i) ==
    IF i < n - tower_level
    THEN interleave_mask_even_loop_linear(n, tower_level,
             OR(mask, SHL(n, mask, (2^tower_level) * i)), i + 1)
    ELSE mask

RECURSIVE interleave_mask_even_loop(_, _, _, _)
interleave_mask_even_loop(n, tower_level, mask, i) ==
    IF i < n - tower_level
    THEN interleave_mask_even_loop(n, tower_level,
             OR(mask, SHL(n, mask, (2^tower_level) * (2^i))), i + 1)
    ELSE mask

interleave_mask_even(n, tower_level) ==
    LET scalar_bits == 2^tower_level
    IN  interleave_mask_even_loop(n, tower_level, SHL(n, 1, scalar_bits) - 1, 1)

interleave_mask_odd(n, tower_level) ==
    SHL(n, interleave_mask_even(n, tower_level), 2^tower_level)

RECURSIVE alphas_loop(_, _, _, _)
alphas_loop(n, tower_level, acc, i) ==
    IF i < n - tower_level
    THEN alphas_loop(n, tower_level,
             OR(acc, SHL(n, acc, 2^(tower_level + i))), i + 1)
    ELSE acc

(* Mutant of alphas: the seed is 1 at every level. *)
alphas_seed_one(n, tower_level) == alphas_loop(n, tower_level, 1, 1)

alphas(n, tower_level) ==
    alphas_loop(n, tower_level,
        IF tower_level = 0 THEN 1 ELSE SHL(n, 1, 2^(tower_level - 1)), 1)

(***************************************************************************)
(* The underliers of the model, by LOG_BITS: u8 and u16.  Each has one     *)
(* mask per tower level below LOG_BITS and one ALPHAS_ODD per subfield.    *)
(***************************************************************************)
Underliers == {3, 4}

EVEN_MASKS == [n \in Underliers |-> [k \in 1..n |-> interleave_mask_even(n, k - 1)]]

ODD_MASKS == [n \in Underliers |-> [k \in 1..n |-> interleave_mask_odd(n, k - 1)]]

ALPHAS == [n \in Underliers |-> [k \in 1..n |-> alphas(n, k - 1)]]

(* Sequences are indexed from 1: entry [l] of the source is entry [l + 1]. *)
INTERLEAVE_EVEN_MASK(n) == EVEN_MASKS[n]

INTERLEAVE_ODD_MASK(n) == ODD_MASKS[n]

ALPHAS_ODD(n, F) == ALPHAS[n][F.TOWER_LEVEL + 1]

(***************************************************************************)
(* The interleave primitives.                                              *)
(***************************************************************************)
(* UnderlierWithBitConstants::interleave: the trait method, which takes    *)
(* the block size and asserts it is one the mask table has.                *)
(* Mutant of underlier_interleave: d is taken from the shifted cross term. *)
underlier_interleave_d_shifted(n, self, other, log_block_len) ==
    LET block_len == 2^log_block_len
        t == AND(XOR(SHR(self, block_len), other), INTERLEAVE_EVEN_MASK(n)[log_block_len + 1])
        c == XOR(self, SHL(n, t, block_len))
        d == XOR(other, SHL(n, t, block_len))
    IN  <<c, d>>

(* Mutant of interleave: the cross term is not shifted back into c. *)
interleave_unshifted(n, F, a, b) ==
    LET mask == INTERLEAVE_EVEN_MASK(n)[F.TOWER_LEVEL + 1]
        block_len == F.N_BITS
        t == AND(XOR(SHR(a, block_len), b), mask)
        c == XOR(a, t)
        d == XOR(b, t)
    IN  <<c, d>>

interleave_assert(n, log_block_len) == log_block_len < Len(INTERLEAVE_EVEN_MASK(n))

underlier_interleave(n, self, other, log_block_len) ==
    LET block_len == 2^log_block_len
        t == AND(XOR(SHR(self, block_len), other), INTERLEAVE_EVEN_MASK(n)[log_block_len + 1])
        c == XOR(self, SHL(n, t, block_len))
        d == XOR(other, t)
    IN  <<c, d>>

interleave(n, F, a, b) ==
    LET mask == INTERLEAVE_EVEN_MASK(n)[F.TOWER_LEVEL + 1]
        block_len == F.N_BITS
        t == AND(XOR(SHR(a, block_len), b), mask)
        c == XOR(a, SHL(n, t, block_len))
        d == XOR(b, t)
    IN  <<c, d>>

(* Mutant of xor_adjacent: the sums stay in the even lanes only. *)
xor_adjacent_even_only(n, F, a) ==
    LET mask == INTERLEAVE_EVEN_MASK(n)[F.TOWER_LEVEL + 1]
        block_len == F.N_BITS
        t == AND(XOR(SHR(a, block_len), a), mask)
    IN  t

xor_adjacent(n, F, a) ==
    LET mask == INTERLEAVE_EVEN_MASK(n)[F.TOWER_LEVEL + 1]
        block_len == F.N_BITS
        t == AND(XOR(SHR(a, block_len), a), mask)
    IN  XOR(t, SHL(n, t, block_len))

(***************************************************************************)
(* The packed operations of the direct subfield, PackedDirectSubfield.     *)
(* Over level 0 (GF(2), one bit a lane) they are the bitwise base cases;   *)
(* over a level l >= 1 they are the PackedStrategy operations themselves,  *)
(* whose direct subfield is Tower(l - 1).                                  *)
(***************************************************************************)
RECURSIVE mul(_, _, _, _)
RECURSIVE mul_alpha(_, _, _)
RECURSIVE square(_, _, _)
RECURSIVE invert_or_zero(_, _, _)

(* Operands are passed by value: u, v are the evaluated operands.          *)
PackedMul(n, F, x, y) ==
    CHOOSE r \in {IF F.TOWER_LEVEL = 0
                  THEN AND(u, v)
                  ELSE mul(n, Tower(F.TOWER_LEVEL - 1), u, v) : u \in {x}, v \in {y}} : TRUE

PackedMulAlpha(n, F, x) ==
    CHOOSE r \in {IF F.TOWER_LEVEL = 0
                  THEN u
                  ELSE mul_alpha(n, Tower(F.TOWER_LEVEL - 1), u) : u \in {x}} : TRUE

PackedSquare(n, F, x) ==
    CHOOSE r \in {IF F.TOWER_LEVEL = 0
                  THEN u
                  ELSE square(n, Tower(F.TOWER_LEVEL - 1), u) : u \in {x}} : TRUE

PackedInvertOrZero(n, F, x) ==
    CHOOSE r \in {IF F.TOWER_LEVEL = 0
                  THEN u
                  ELSE invert_or_zero(n, Tower(F.TOWER_LEVEL - 1), u) : u \in {x}} : TRUE

(***************************************************************************)
(* TaggedMul<PackedStrategy>::mul.  F is PT::DirectSubfield.               *)
(***************************************************************************)
mul_assert_ne(F) == F.DEGREE # 0

(* Mutant of mul: the alphas are left out of the second product. *)
mul_without_alphas(n, F, self, b) ==
    LET a == self
        z0_even_z2_odd == PackedMul(n, F, a, b)
        lohi == interleave(n, F, a, b)
        lo_plus_hi_a_even_b_odd == XOR(lohi[1], lohi[2])
        odd_mask == INTERLEAVE_ODD_MASK(n)[F.TOWER_LEVEL + 1]
        alpha_even_z2_odd == AND(z0_even_z2_odd, odd_mask)
        pair == interleave(n, F, lo_plus_hi_a_even_b_odd, alpha_even_z2_odd)
        z1_plus_z0_plus_z2_even_z2a_odd == PackedMul(n, F, pair[1], pair[2])
        zero_even_z1_plus_z2a_plus_z0_plus_z2_odd ==
            AND(XOR(z1_plus_z0_plus_z2_even_z2a_odd,
                    SHL(n, z1_plus_z0_plus_z2_even_z2a_odd, F.N_BITS)),
                odd_mask)
        z0_plus_z2_dup == xor_adjacent(n, F, z0_even_z2_odd)
    IN  XOR(z0_plus_z2_dup, zero_even_z1_plus_z2a_plus_z0_plus_z2_odd)

mul(n, F, self, b) ==
    LET a == self
        z0_even_z2_odd == PackedMul(n, F, a, b)
        lohi == interleave(n, F, a, b)
        lo == lohi[1]
        hi == lohi[2]
        lo_plus_hi_a_even_b_odd == XOR(lo, hi)
        odd_mask == INTERLEAVE_ODD_MASK(n)[F.TOWER_LEVEL + 1]
        alphas_odd == ALPHAS_ODD(n, F)
        alpha_even_z2_odd == XOR(alphas_odd, AND(z0_even_z2_odd, odd_mask))
        pair == interleave(n, F, lo_plus_hi_a_even_b_odd, alpha_even_z2_odd)
        a_lo_plus_hi_even_alpha_odd == pair[1]
        b_lo_plus_hi_even_z2_odd == pair[2]
        z1_plus_z0_plus_z2_even_z2a_odd ==
            PackedMul(n, F, a_lo_plus_hi_even_alpha_odd, b_lo_plus_hi_even_z2_odd)
        zero_even_z1_plus_z2a_plus_z0_plus_z2_odd ==
            AND(XOR(z1_plus_z0_plus_z2_even_z2a_odd,
                    SHL(n, z1_plus_z0_plus_z2_even_z2a_odd, F.N_BITS)),
                odd_mask)
        z0_plus_z2_dup == xor_adjacent(n, F, z0_even_z2_odd)
    IN  XOR(z0_plus_z2_dup, zero_even_z1_plus_z2a_plus_z0_plus_z2_odd)

(***************************************************************************)
(* TaggedMulAlpha<PackedStrategy>::mul_alpha.                              *)
(***************************************************************************)
(* Mutant of mul_alpha: the subfield-scaled term z1 is left out. *)
mul_alpha_without_z1(n, F, self) ==
    LET block_len == F.N_BITS
        even_mask == INTERLEAVE_EVEN_MASK(n)[F.TOWER_LEVEL + 1]
        odd_mask == INTERLEAVE_ODD_MASK(n)[F.TOWER_LEVEL + 1]
        a0 == AND(self, even_mask)
        a1 == AND(self, odd_mask)
    IN  OR(SHR(a1, block_len), SHL(n, a0, block_len))

mul_alpha(n, F, self) ==
    LET block_len == F.N_BITS
        even_mask == INTERLEAVE_EVEN_MASK(n)[F.TOWER_LEVEL + 1]
        odd_mask == INTERLEAVE_ODD_MASK(n)[F.TOWER_LEVEL + 1]
        a == self
        a0 == AND(a, even_mask)
        a1 == AND(a, odd_mask)
        z1 == PackedMulAlpha(n, F, a1)
    IN  OR(SHR(a1, block_len), XOR(SHL(n, a0, block_len), z1))

(***************************************************************************)
(* TaggedSquare<PackedStrategy>::square.                                   *)
(***************************************************************************)
(* Mutant of square: the odd lanes are not multiplied by alpha. *)
square_without_mul_alpha(n, F, self) ==
    LET block_len == F.N_BITS
        even_mask == INTERLEAVE_EVEN_MASK(n)[F.TOWER_LEVEL + 1]
        odd_mask == INTERLEAVE_ODD_MASK(n)[F.TOWER_LEVEL + 1]
        z_02 == PackedSquare(n, F, self)
        z_2a == AND(z_02, odd_mask)
        z_0_xor_z_2 == AND(XOR(z_02, SHR(z_02, block_len)), even_mask)
    IN  OR(z_0_xor_z_2, z_2a)

square(n, F, self) ==
    LET block_len == F.N_BITS
        even_mask == INTERLEAVE_EVEN_MASK(n)[F.TOWER_LEVEL + 1]
        odd_mask == INTERLEAVE_ODD_MASK(n)[F.TOWER_LEVEL + 1]
        z_02 == PackedSquare(n, F, self)
        z_2a == AND(PackedMulAlpha(n, F, z_02), odd_mask)
        z_0_xor_z_2 == AND(XOR(z_02, SHR(z_02, block_len)), even_mask)
    IN  OR(z_0_xor_z_2, z_2a)

(***************************************************************************)
(* TaggedInvertOrZero<PackedStrategy>::invert_or_zero.                     *)
(***************************************************************************)
(* Mutant of invert_or_zero: the inverted norm is not copied to odd lanes. *)
invert_or_zero_norm_not_copied(n, F, self) ==
    LET block_len == F.N_BITS
        even_mask == INTERLEAVE_EVEN_MASK(n)[F.TOWER_LEVEL + 1]
        odd_mask == INTERLEAVE_ODD_MASK(n)[F.TOWER_LEVEL + 1]
        a_1_even == SHR(self, block_len)
        intermediate == XOR(self, PackedMulAlpha(n, F, a_1_even))
        delta == XOR(PackedMul(n, F, self, intermediate), PackedSquare(n, F, a_1_even))
        delta_inv == PackedInvertOrZero(n, F, delta)
        delta_inv_delta_inv == AND(delta_inv, even_mask)
        intermediate_a1 == OR(AND(self, odd_mask), AND(intermediate, even_mask))
    IN  PackedMul(n, F, delta_inv_delta_inv, intermediate_a1)

(* Mutant of invert_or_zero: the odd positions of intermediate, which hold *)
(* the low half of the next lane, are not masked away.                     *)
invert_or_zero_intermediate_unmasked(n, F, self) ==
    LET block_len == F.N_BITS
        even_mask == INTERLEAVE_EVEN_MASK(n)[F.TOWER_LEVEL + 1]
        odd_mask == INTERLEAVE_ODD_MASK(n)[F.TOWER_LEVEL + 1]
        a_1_even == SHR(self, block_len)
        intermediate == XOR(self, PackedMulAlpha(n, F, a_1_even))
        delta == XOR(PackedMul(n, F, self, intermediate), PackedSquare(n, F, a_1_even))
        delta_inv == PackedInvertOrZero(n, F, delta)
        delta_inv_even == AND(delta_inv, even_mask)
        delta_inv_delta_inv == OR(delta_inv_even, SHL(n, delta_inv_even, block_len))
        intermediate_a1 == OR(AND(self, odd_mask), intermediate)
    IN  PackedMul(n, F, delta_inv_delta_inv, intermediate_a1)

invert_or_zero(n, F, self) ==
    LET block_len == F.N_BITS
        even_mask == INTERLEAVE_EVEN_MASK(n)[F.TOWER_LEVEL + 1]
        odd_mask == INTERLEAVE_ODD_MASK(n)[F.TOWER_LEVEL + 1]
        a_1_even == SHR(self, block_len)
        intermediate == XOR(self, PackedMulAlpha(n, F, a_1_even))
        delta == XOR(PackedMul(n, F, self, intermediate), PackedSquare(n, F, a_1_even))
        delta_inv == PackedInvertOrZero(n, F, delta)
        delta_inv_even == AND(delta_inv, even_mask)
        delta_inv_delta_inv == OR(delta_inv_even, SHL(n, delta_inv_even, block_len))
        intermediate_a1 == OR(AND(self, odd_mask), AND(intermediate, even_mask))
    IN  PackedMul(n, F, delta_inv_delta_inv, intermediate_a1)

(***************************************************************************)
(* The calls.  A call of one operation on chosen operands leaves its       *)
(* operands and its result in the state; Return forgets them.  A failed    *)
(* assertion ends the call with panicked set and no result.                *)
(***************************************************************************)
VARIABLES pc, op, ubits, field, arg_a, arg_b, ret, panicked,
          exprs, degree, n_vars, evals, query, result, touched, stale

field_vars == <<pc, op, ubits, field, arg_a, arg_b, ret, panicked>>
circuit_vars == <<exprs, degree, n_vars, evals, query, result, touched, stale>>
vars == <<field_vars, circuit_vars>>

(* Operand samples: MaxA + 1 first operands and MaxB + 1 second operands   *)
(* per underlier.  The multipliers are odd, so the 256 first operands of   *)
(* u8 are all of its values.                                               *)
MaxA == 255

MaxB == 7

OperandsA(n) == {(k * 40503) % (2^BITS(n)) : k \in 0..MaxA}

OperandsB(n) == {(k * 27183 + 65535) % (2^BITS(n)) : k \in 0..MaxB}

(* The direct subfields a packed tower field over the underlier can have. *)
Subfields(n) == {Tower(l) : l \in 0..(n - 1)}

NoCircuit ==
    /\ exprs = <<>> /\ degree = 0 /\ n_vars = 0 /\ evals = <<>> /\ query = <<>>
    /\ result = [tag |-> "None"] /\ touched = 0 /\ stale = <<>>

Idle ==
    /\ pc = "idle" /\ op = "none" /\ ubits = 0 /\ field = Tower(0)
    /\ arg_a = 0 /\ arg_b = 0 /\ ret = <<>> /\ panicked = FALSE

Init == Idle /\ NoCircuit

(* The expansion of the constant generators for one underlier and level:  *)
(* the even mask, the odd mask and the alphas word.                        *)
Constants ==
    /\ pc = "idle"
    /\ \E n \in Underliers : \E F \in Subfields(n) :
        /\ pc' = "done" /\ op' = "constants" /\ ubits' = n /\ field' = F
        /\ arg_a' = 0 /\ arg_b' = 0
        /\ panicked' = FALSE
        /\ ret' = <<INTERLEAVE_EVEN_MASK(n)[F.TOWER_LEVEL + 1],
                    INTERLEAVE_ODD_MASK(n)[F.TOWER_LEVEL + 1],
                    ALPHAS_ODD(n, F)>>
    /\ UNCHANGED circuit_vars

Interleave ==
    /\ pc = "idle"
    /\ \E n \in Underliers : \E F \in Subfields(n) :
       \E a \in OperandsA(n), b \in OperandsB(n) :
        /\ pc' = "done" /\ op' = "interleave" /\ ubits' = n /\ field' = F
        /\ arg_a' = a /\ arg_b' = b
        /\ panicked' = FALSE
        /\ ret' = interleave(n, F, a, b)
    /\ UNCHANGED circuit_vars

UnderlierInterleave ==
    /\ pc = "idle"
    /\ \E n \in Underliers : \E log_block_len \in 0..n :
       \E a \in OperandsA(n), b \in OperandsB(n) :
        /\ pc' = "done" /\ op' = "underlier_interleave" /\ ubits' = n /\ field' = Tower(log_block_len)
        /\ arg_a' = a /\ arg_b' = b
        /\ panicked' = ~interleave_assert(n, log_block_len)
        /\ ret' = IF interleave_assert(n, log_block_len) THEN underlier_interleave(n, a, b, log_block_len) ELSE <<>>
    /\ UNCHANGED circuit_vars

XorAdjacent ==
    /\ pc = "idle"
    /\ \E n \in Underliers : \E F \in Subfields(n) : \E a \in OperandsA(n) :
        /\ pc' = "done" /\ op' = "xor_adjacent" /\ ubits' = n /\ field' = F
        /\ arg_a' = a /\ arg_b' = 0
        /\ panicked' = FALSE
        /\ ret' = <<xor_adjacent(n, F, a)>>
    /\ UNCHANGED circuit_vars

Mul ==
    /\ pc = "idle"
    /\ \E n \in Underliers : \E F \in Subfields(n) :
       \E a \in OperandsA(n), b \in OperandsB(n) :
        /\ pc' = "done" /\ op' = "mul" /\ ubits' = n /\ field' = F
        /\ arg_a' = a /\ arg_b' = b
        /\ panicked' = ~mul_assert_ne(F)
        /\ ret' = IF mul_assert_ne(F) THEN <<mul(n, F, a, b)>> ELSE <<>>
    /\ UNCHANGED circuit_vars

MulAlpha ==
    /\ pc = "idle"
    /\ \E n \in Underliers : \E F \in Subfields(n) : \E a \in OperandsA(n) :
        /\ pc' = "done" /\ op' = "mul_alpha" /\ ubits' = n /\ field' = F
        /\ arg_a' = a /\ arg_b' = 0
        /\ panicked' = FALSE
        /\ ret' = <<mul_alpha(n, F, a)>>
    /\ UNCHANGED circuit_vars

Square ==
    /\ pc = "idle"
    /\ \E n \in Underliers : \E F \in Subfields(n) :
       \E a \in OperandsA(n) :
        /\ pc' = "done" /\ op' = "square" /\ ubits' = n /\ field' = F
        /\ arg_a' = a /\ arg_b' = 0
        /\ panicked' = FALSE
        /\ ret' = <<square(n, F, a)>>
    /\ UNCHANGED circuit_vars

InvertOrZero ==
    /\ pc = "idle"
    /\ \E n \in Underliers : \E F \in Subfields(n) :
       \E a \in OperandsA(n) :
        /\ pc' = "done" /\ op' = "invert_or_zero" /\ ubits' = n /\ field' = F
        /\ arg_a' = a /\ arg_b' = 0
        /\ panicked' = FALSE
        /\ ret' = <<invert_or_zero(n, F, a)>>
    /\ UNCHANGED circuit_vars

Return ==
    /\ pc = "done"
    /\ pc' = "idle" /\ op' = "none" /\ ubits' = 0 /\ field' = Tower(0)
    /\ arg_a' = 0 /\ arg_b' = 0 /\ ret' = <<>> /\ panicked' = FALSE
    /\ UNCHANGED circuit_vars

Next ==
    \/ Constants
    \/ Interleave
    \/ UnderlierInterleave
    \/ XorAdjacent
    \/ Mul
    \/ MulAlpha
    \/ Square
    \/ InvertOrZero
    \/ Return

Spec == Init /\ [][Next]_vars

(***************************************************************************)
(* ArithCircuitPoly<F, P>.  P is the packed field of four 2-bit lanes over *)
(* u8 (LOG_BITS 3, direct subfield Tower(0)), F the 2-bit tower field.     *)
(* ExprIds and variable indices count from 0; sequences from 1.            *)
(***************************************************************************)
P_zero == 0

P_one == 1 + 4 + 16 + 64

P_broadcast(value) == value * P_one

P_add(a, b) == XOR(a, b)

P_mul(a, b) == mul(3, Tower(0), a, b)

P_square(a) == square(3, Tower(0), a)

Const(value) == [tag |-> "Const", value |-> value]

Var(index) == [tag |-> "Var", index |-> index]

Add(a, b) == [tag |-> "Add", x |-> a, y |-> b]

Mul2(a, b) == [tag |-> "Mul", x |-> a, y |-> b]

Pow(id, exp) == [tag |-> "Pow", id |-> id, exp |-> exp]

(* Bit i of a 64-bit exponent; the exponents of the model are below 2^31. *)
ExpBit(exp, i) == IF i > 30 THEN 0 ELSE (exp \div (2^i)) % 2

(* pow: rounds i = 63 down to 0, each a square, then a multiplication by  *)
(* value when bit i of exp is set.  pow_rounds runs rounds hi down to lo   *)
(* on res, the upper half of the range first, each half on the value the   *)
(* one before it produced.                                                  *)
(* Mutant of pow_round: the multiplication comes before the square. *)
pow_round_multiply_first(value, exp, i, res) ==
    IF ExpBit(exp, i) = 1 THEN P_square(P_mul(res, value)) ELSE P_square(res)

pow_round(value, exp, i, res) ==
    IF ExpBit(exp, i) = 1 THEN P_mul(P_square(res), value) ELSE P_square(res)

RECURSIVE pow_rounds(_, _, _, _, _)
pow_rounds(value, exp, hi, lo, res) ==
    IF hi = lo THEN pow_round(value, exp, hi, res)
    ELSE LET mid == (hi + lo + 1) \div 2
         IN  CHOOSE r \in {pow_rounds(value, exp, mid - 1, lo, upper) :
                              upper \in {pow_rounds(value, exp, hi, mid, res)}} : TRUE

pow(value, exp) == pow_rounds(value, exp, 63, 0, P_one)

Max(a, b) == IF a > b THEN a ELSE b

(* ArithCircuitPoly::new: the debug assertions on the ExprIds. *)
new_debug_assert(es) ==
    \A i \in 1..Len(es) :
        CASE es[i].tag \in {"Add", "Mul"} -> es[i].x < i - 1 /\ es[i].y < i - 1
          [] es[i].tag = "Pow" -> es[i].id < i - 1
          [] OTHER -> TRUE

RECURSIVE new_degrees(_, _, _)
new_degrees(es, degrees, i) ==
    IF i > Len(es) THEN degrees
    ELSE LET d == CASE es[i].tag = "Const" -> 0
                    [] es[i].tag = "Var" -> 1
                    [] es[i].tag = "Add" -> Max(degrees[es[i].x + 1], degrees[es[i].y + 1])
                    [] es[i].tag = "Mul" -> degrees[es[i].x + 1] + degrees[es[i].y + 1]
                    [] es[i].tag = "Pow" -> degrees[es[i].id + 1] * es[i].exp
         IN  new_degrees(es, [degrees EXCEPT ![i] = d], i + 1)

new_degree(es) == new_degrees(es, [i \in 1..Len(es) |-> 0], 1)[Len(es)]

RECURSIVE new_n_vars_max(_, _)
new_n_vars_max(es, i) ==
    IF i > Len(es) THEN 0
    ELSE Max(IF es[i].tag = "Var" THEN es[i].index + 1 ELSE 0, new_n_vars_max(es, i + 1))

new_n_vars(es) == new_n_vars_max(es, 1)

(* evaluate: the size check, then every expression in sequence, each       *)
(* written to its slot of the scratch buffer and read back from there.     *)
(* Mutant of evaluate_size_ok: only a query that is too short is refused. *)
evaluate_size_ok_at_least(q, nv) == Len(q) >= nv

evaluate_size_ok(q, nv) == Len(q) = nv

evaluate_expr(e, q, buf) ==
    CASE e.tag = "Const" -> P_broadcast(e.value)
      [] e.tag = "Var" -> q[e.index + 1]
      [] e.tag = "Add" -> P_add(buf[e.x + 1], buf[e.y + 1])
      [] e.tag = "Mul" -> P_mul(buf[e.x + 1], buf[e.y + 1])
      [] e.tag = "Pow" -> pow(buf[e.id + 1], e.exp)

(* Mutant of evaluate_loop: a slot that is not zero is taken as computed. *)
RECURSIVE evaluate_loop_keeps_nonzero(_, _, _, _)
evaluate_loop_keeps_nonzero(es, q, buf, i) ==
    IF i > Len(es) THEN buf
    ELSE CHOOSE r \in {evaluate_loop_keeps_nonzero(es, q, next, i + 1) :
                          next \in {IF buf[i] # P_zero THEN buf
                                    ELSE [buf EXCEPT ![i] = evaluate_expr(es[i], q, buf)]}} : TRUE

RECURSIVE evaluate_loop(_, _, _, _)
evaluate_loop(es, q, buf, i) ==
    IF i > Len(es) THEN buf
    ELSE CHOOSE r \in {evaluate_loop(es, q, next, i + 1) :
                          next \in {[buf EXCEPT ![i] = evaluate_expr(es[i], q, buf)]}} : TRUE

(* ThreadLocalMut::with_mut: the buffer is made, zeroed, on its first use. *)
with_mut_init(es, buf) == IF buf = <<>> THEN [i \in 1..Len(es) |-> P_zero] ELSE buf

(* The circuits and queries of the model. *)
MaxExprs == 2

MaxVar == 1

MaxQuery == 2

ConstValues == {3}

Exponents == {2, 13}

QueryValues == {P_broadcast(2), 1 + 4 * 2 + 16 * 3}

ExprsAt(i) ==
    {Const(c) : c \in ConstValues}
    \cup {Var(v) : v \in 0..MaxVar}
    \cup {Add(a, b) : a \in 0..(i - 2), b \in 0..(i - 2)}
    \cup {Mul2(a, b) : a \in 0..(i - 2), b \in 0..(i - 2)}
    \cup {Pow(a, e) : a \in 0..(i - 2), e \in Exponents}

RECURSIVE CircuitsOfLen(_)
CircuitsOfLen(k) ==
    IF k = 0 THEN {<<>>}
    ELSE {Append(c, e) : c \in CircuitsOfLen(k - 1), e \in ExprsAt(k)}

Circuits == UNION {CircuitsOfLen(k) : k \in 1..MaxExprs}

RECURSIVE QueriesOfLen(_)
QueriesOfLen(k) ==
    IF k = 0 THEN {<<>>}
    ELSE {Append(q, v) : q \in QueriesOfLen(k - 1), v \in QueryValues}

Queries == UNION {QueriesOfLen(k) : k \in 0..MaxQuery}

New ==
    /\ exprs = <<>>
    /\ \E es \in Circuits :
        /\ new_debug_assert(es)
        /\ exprs' = es
        /\ degree' = new_degree(es)
        /\ n_vars' = new_n_vars(es)
    /\ evals' = <<>>
    /\ UNCHANGED <<query, result, touched, stale>>
    /\ UNCHANGED field_vars

Evaluate ==
    /\ exprs # <<>>
    /\ result.tag = "None"
    /\ \E q \in Queries :
        /\ query' = q
        /\ stale' = evals
        /\ IF ~evaluate_size_ok(q, n_vars)
           THEN /\ result' = [tag |-> "Err", error |-> "IncorrectQuerySize", expected |-> n_vars]
                /\ touched' = 0
                /\ evals' = evals
           ELSE LET buf == evaluate_loop(exprs, q, with_mut_init(exprs, evals), 1)
                IN  /\ evals' = buf
                    /\ touched' = Len(exprs)
                    /\ result' = [tag |-> "Ok", value |-> buf[Len(buf)]]
    /\ UNCHANGED <<exprs, degree, n_vars>>
    /\ UNCHANGED field_vars

(* The caller takes the result; the circuit and its scratch buffer stay.   *)
(* stale is the scratch buffer as the call in progress found it.           *)
EvaluateReturn ==
    /\ result.tag # "None"
    /\ query' = <<>> /\ result' = [tag |-> "None"] /\ touched' = 0 /\ stale' = <<>>
    /\ UNCHANGED <<exprs, degree, n_vars, evals>>
    /\ UNCHANGED field_vars

NextCircuit ==
    \/ New
    \/ Evaluate
    \/ EvaluateReturn

SpecCircuit == Init /\ [][NextCircuit]_vars

(* pow called on its own, on every value of P and the exponents up to      *)
(* MaxExp.                                                                 *)
MaxExp == 15

PowCall ==
    /\ pc = "idle"
    /\ \E v \in OperandsA(3), e \in 0..MaxExp :
        /\ pc' = "done" /\ op' = "pow" /\ ubits' = 3 /\ field' = Tower(0)
        /\ arg_a' = v /\ arg_b' = e
        /\ panicked' = FALSE
        /\ ret' = <<pow(v, e)>>
    /\ UNCHANGED circuit_vars

NextPow ==
    \/ PowCall
    \/ Return

SpecPow == Init /\ [][NextPow]_vars

(***************************************************************************)
(* The tower fields as scalars, by the extension rule: a level-l scalar    *)
(* (l >= 1) is lo + hi*X with lo, hi of level l-1 (lo the low 2^(l-1)      *)
(* bits) and X^2 = X*alpha + 1, alpha the generator of level l-1.  The     *)
(* properties are stated against this arithmetic.                          *)
(***************************************************************************)
Width(l) == 2^(2^l)

Lanes(n, l) == 0..(2^(n - l) - 1)

Lane(l, i, v) == (v \div (2^(i * (2^l)))) % Width(l)

Low(l, s) == s % Width(l - 1)

High(l, s) == s \div Width(l - 1)

Join(l, lo, hi) == lo + Width(l - 1) * hi

Generator(l) == IF l = 0 THEN 1 ELSE Width(l - 1)

Broadcast(n, l, s) == s * ((Width(n) - 1) \div (Width(l) - 1))

TowerMul[l \in Nat, s \in Nat, t \in Nat] ==
    IF l = 0 THEN s * t
    ELSE LET z0 == TowerMul[l - 1, Low(l, s), Low(l, t)]
             z2 == TowerMul[l - 1, High(l, s), High(l, t)]
             c1 == TowerMul[l - 1, Low(l, s), High(l, t)]
             c2 == TowerMul[l - 1, High(l, s), Low(l, t)]
         IN  Join(l, XOR(z0, z2),
                     XOR(XOR(c1, c2), TowerMul[l - 1, z2, Generator(l - 1)]))

Returned(name) == pc = "done" /\ op = name /\ ~panicked

(* The level of the packed tower field PT of the call. *)
L == field.TOWER_LEVEL + 1

(***************************************************************************)
(* C1: at every level L >= 1, mul(a, b) holds in every level-L lane the    *)
(* tower-field product of that lane of a and of b: low half                *)
(* a_lo*b_lo + a_hi*b_hi, high half a_lo*b_hi + a_hi*b_lo + a_hi*b_hi*alpha.*)
(***************************************************************************)
C1_MulLanewise ==
    Returned("mul") =>
        \A i \in Lanes(ubits, L) :
            Lane(L, i, ret[1]) = TowerMul[L, Lane(L, i, arg_a), Lane(L, i, arg_b)]

C1_Witness ==
    /\ Returned("mul") /\ ubits = 4 /\ field = Tower(2)
    /\ \A i \in Lanes(ubits, L) :
           /\ High(L, Lane(L, i, arg_a)) > 1 /\ High(L, Lane(L, i, arg_b)) > 1
           /\ Low(L, Lane(L, i, arg_a)) > 1 /\ Low(L, Lane(L, i, arg_b)) > 1
           /\ High(L, Lane(L, i, ret[1])) # 0

(***************************************************************************)
(* C2: at every level L >= 1, invert_or_zero(a) is total and holds in      *)
(* every level-L lane the inverse of that lane of a when it is nonzero     *)
(* (mul(a, invert_or_zero(a)) has 1 in that lane) and 0 when it is 0.      *)
(***************************************************************************)
C2_InvertLanewise ==
    (pc = "done" /\ op = "invert_or_zero") =>
        /\ ~panicked
        /\ \A i \in Lanes(ubits, L) :
               IF Lane(L, i, arg_a) = 0
               THEN Lane(L, i, ret[1]) = 0
               ELSE /\ TowerMul[L, Lane(L, i, arg_a), Lane(L, i, ret[1])] = 1
                    /\ Lane(L, i, mul(ubits, field, arg_a, ret[1])) = 1

C2_Witness ==
    /\ Returned("invert_or_zero") /\ ubits = 4 /\ field = Tower(1)
    /\ \E i, j \in Lanes(ubits, L) :
           /\ Lane(L, i, arg_a) = 0
           /\ Lane(L, j, arg_a) > 1 /\ Lane(L, j, ret[1]) > 1

(***************************************************************************)
(* C3: at every level L >= 1, square(a) equals mul(a, a) bit for bit, and  *)
(* maps each lane lo + hi*X to (lo^2 + hi^2) + (hi^2*alpha)*X.             *)
(***************************************************************************)
C3_SquareIsMul ==
    Returned("square") =>
        /\ ret[1] = mul(ubits, field, arg_a, arg_a)
        /\ \A i \in Lanes(ubits, L) :
               LET lo == Low(L, Lane(L, i, arg_a))
                   hi == High(L, Lane(L, i, arg_a))
                   hi2 == TowerMul[L - 1, hi, hi]
               IN  Lane(L, i, ret[1]) =
                       Join(L, XOR(TowerMul[L - 1, lo, lo], hi2),
                               TowerMul[L - 1, hi2, Generator(L - 1)])

C3_Witness ==
    /\ Returned("square") /\ ubits = 4 /\ field = Tower(3)
    /\ High(L, arg_a) > 1 /\ Low(L, arg_a) > 1
    /\ High(L, ret[1]) > 1 /\ ret[1] # arg_a

(***************************************************************************)
(* C4: at every level L >= 1, mul_alpha(a) equals mul(a, g), g the         *)
(* broadcast of the level-L generator (low half 0, high half 1): each lane *)
(* lo + hi*X becomes hi + (lo + hi*alpha)*X.                               *)
(***************************************************************************)
C4_MulAlphaIsMulByGenerator ==
    Returned("mul_alpha") =>
        /\ ret[1] = mul(ubits, field, arg_a, Broadcast(ubits, L, Generator(L)))
        /\ \A i \in Lanes(ubits, L) :
               LET lo == Low(L, Lane(L, i, arg_a))
                   hi == High(L, Lane(L, i, arg_a))
               IN  /\ Lane(L, i, ret[1]) =
                          Join(L, hi, XOR(lo, TowerMul[L - 1, hi, Generator(L - 1)]))
                   /\ Lane(L, i, ret[1]) = TowerMul[L, Lane(L, i, arg_a), Generator(L)]

C4_Witness ==
    /\ Returned("mul_alpha") /\ ubits = 3 /\ field = Tower(1)
    /\ \A i \in Lanes(ubits, L) :
           /\ High(L, Lane(L, i, arg_a)) > 1 /\ Low(L, Lane(L, i, arg_a)) > 1
           /\ Low(L, Lane(L, i, ret[1])) # High(L, Lane(L, i, ret[1]))

(***************************************************************************)
(* C5: interleave(a, b) at lane level l returns (c, d) with, for every     *)
(* even j, lane j of c = lane j of a, lane j+1 of c = lane j of b, lane j  *)
(* of d = lane j+1 of a and lane j+1 of d = lane j+1 of b.                 *)
(***************************************************************************)
IsInterleave == op \in {"interleave", "underlier_interleave"}

C5_InterleaveLanes ==
    (pc = "done" /\ IsInterleave /\ ~panicked) =>
        LET l == field.TOWER_LEVEL
        IN  \A j \in {i \in Lanes(ubits, l) : i % 2 = 0} :
                /\ Lane(l, j, ret[1]) = Lane(l, j, arg_a)
                /\ Lane(l, j + 1, ret[1]) = Lane(l, j, arg_b)
                /\ Lane(l, j, ret[2]) = Lane(l, j + 1, arg_a)
                /\ Lane(l, j + 1, ret[2]) = Lane(l, j + 1, arg_b)

C5_Witness ==
    /\ Returned("interleave") /\ ubits = 4 /\ field = Tower(1)
    /\ \A j \in Lanes(ubits, 1) :
           /\ Lane(1, j, arg_a) # Lane(1, j, arg_b)
           /\ Lane(1, j, arg_a) # Lane(1, (j + 1) % 8, arg_a)
    /\ ret[1] # arg_a /\ ret[2] # arg_b

(***************************************************************************)
(* C6: interleave is an involution: interleave at the same level applied   *)
(* to the pair interleave(a, b) returned gives back exactly (a, b).        *)
(***************************************************************************)
C6_InterleaveInvolution ==
    /\ Returned("interleave") =>
           interleave(ubits, field, ret[1], ret[2]) = <<arg_a, arg_b>>
    /\ Returned("underlier_interleave") =>
           underlier_interleave(ubits, ret[1], ret[2], field.TOWER_LEVEL) = <<arg_a, arg_b>>

C6_Witness ==
    /\ Returned("underlier_interleave") /\ ubits = 3 /\ field = Tower(2)
    /\ ret # <<arg_a, arg_b>> /\ ret[1] # ret[2] /\ arg_a # arg_b

(***************************************************************************)
(* C7: for every underlier and level l below its log bit-width the masks   *)
(* are disjoint and together cover every bit; EVEN has exactly the bits of *)
(* the 2^l-bit blocks 0, 2, 4, ... and ODD those of blocks 1, 3, 5, ...    *)
(***************************************************************************)
Bit(v, k) == (v \div (2^k)) % 2

C7_MasksPartition ==
    Returned("constants") =>
        LET l == field.TOWER_LEVEL
            even == ret[1]
            odd == ret[2]
        IN  /\ AND(even, odd) = 0
            /\ XOR(even, odd) = Width(ubits) - 1
            /\ \A k \in 0..(BITS(ubits) - 1) :
                   /\ Bit(even, k) = 1 <=> (k \div (2^l)) % 2 = 0
                   /\ Bit(odd, k) = 1 <=> (k \div (2^l)) % 2 = 1

C7_Witness ==
    /\ Returned("constants") /\ ubits = 4 /\ field = Tower(2)
    /\ ret[1] = 3855 /\ ret[2] = 61680

(***************************************************************************)
(* C8 as stated: ALPHAS_ODD holds the generator of level l in every        *)
(* odd-indexed lane of 2^l bits and zero in every even-indexed lane, so    *)
(* that ALPHAS_ODD & EVEN_MASK = 0.                                        *)
(***************************************************************************)
C8_AlphasInOddLanes ==
    Returned("constants") =>
        LET l == field.TOWER_LEVEL
        IN  /\ \A i \in Lanes(ubits, l) :
                   Lane(l, i, ret[3]) = IF i % 2 = 1 THEN Generator(l) ELSE 0
            /\ AND(ret[3], ret[1]) = 0

(***************************************************************************)
(* C8, amended: ALPHAS_ODD holds the generator of level l in every         *)
(* even-indexed lane of 2^l bits and zero in every odd-indexed lane, lanes *)
(* counted from 0 at the least significant end (ALPHAS_ODD & ODD_MASK = 0).*)
(***************************************************************************)
C8_AlphasInEvenLanes ==
    Returned("constants") =>
        LET l == field.TOWER_LEVEL
        IN  /\ \A i \in Lanes(ubits, l) :
                   Lane(l, i, ret[3]) = IF i % 2 = 0 THEN Generator(l) ELSE 0
            /\ AND(ret[3], ret[2]) = 0

C8_Witness ==
    /\ Returned("constants") /\ ubits = 4 /\ field = Tower(1)
    /\ Lane(1, 0, ret[3]) = 2 /\ Lane(1, 1, ret[3]) = 0 /\ Lane(1, 6, ret[3]) = 2

(***************************************************************************)
(* C10: evaluate(query) returns the error IncorrectQuerySize { expected:   *)
(* n_vars } exactly when the length of query differs from n_vars, n_vars   *)
(* being 1 + the largest index of a Var expression of the circuit (0 when  *)
(* there is none); on that error no expression is evaluated and the        *)
(* scratch buffer is left unchanged; otherwise evaluate returns Ok.        *)
(***************************************************************************)
VarIndices(es) == {es[i].index : i \in {j \in 1..Len(es) : es[j].tag = "Var"}}

LargestVarPlusOne(es) ==
    IF VarIndices(es) = {} THEN 0
    ELSE 1 + (CHOOSE m \in VarIndices(es) : \A k \in VarIndices(es) : k <= m)

C10_Returned ==
    result.tag # "None" =>
        /\ n_vars = LargestVarPlusOne(exprs)
        /\ result.tag = "Err" <=> Len(query) # n_vars
        /\ result.tag = "Err" =>
               /\ result.error = "IncorrectQuerySize"
               /\ result.expected = n_vars
               /\ touched = 0
        /\ result.tag # "Err" => (result.tag = "Ok" /\ touched = Len(exprs))

C10_ErrorLeavesBuffer == (result'.tag = "Err" /\ result.tag = "None") => evals' = evals

C10_IncorrectQuerySize == [](C10_Returned) /\ [][C10_ErrorLeavesBuffer]_vars

C10_Witness ==
    /\ result.tag = "Err" /\ Len(query) > n_vars /\ n_vars = 1
    /\ evals # <<>> /\ evals[Len(evals)] # P_zero

(***************************************************************************)
(* C11: pow(v, e) holds in every lane the product of e copies of that lane *)
(* of v, computed by iterated multiplication; pow(v, 0) has the field      *)
(* element 1 in every lane and pow(v, 1) = v.                              *)
(***************************************************************************)
IteratedMul[l \in Nat, s \in Nat, e \in Nat] ==
    IF e = 0 THEN 1 ELSE TowerMul[l, IteratedMul[l, s, e - 1], s]

C11_PowIsIteratedMul ==
    Returned("pow") =>
        /\ \A i \in Lanes(ubits, L) :
               Lane(L, i, ret[1]) = IteratedMul[L, Lane(L, i, arg_a), arg_b]
        /\ arg_b = 0 => ret[1] = Broadcast(ubits, L, 1)
        /\ arg_b = 1 => ret[1] = arg_a

C11_Witness ==
    /\ Returned("pow") /\ arg_b = 13
    /\ Lane(L, 0, arg_a) = 2 /\ Lane(L, 1, arg_a) = 3
    /\ Lane(L, 0, ret[1]) = 2 /\ Lane(L, 1, ret[1]) = 3

(***************************************************************************)
(* C12: mul, square, mul_alpha and invert_or_zero at level L >= 1 are      *)
(* lane-independent: inputs that agree on level-L lane i give results that *)
(* agree on lane i, whatever the other lanes hold.  Every call is compared *)
(* with the two calls whose inputs keep lane i and have the other lanes    *)
(* all zeros and all ones; two inputs agreeing on lane i share those.      *)
(***************************************************************************)
LaneMask(l, i) == (Width(l) - 1) * (2^(i * (2^l)))

OtherLanes(n, l, i, v, fill) ==
    IF fill = 0 THEN AND(v, LaneMask(l, i))
    ELSE OR(v, (2^BITS(n) - 1) - LaneMask(l, i))

Apply(name, n, F, a, b) ==
    CASE name = "mul" -> mul(n, F, a, b)
      [] name = "square" -> square(n, F, a)
      [] name = "mul_alpha" -> mul_alpha(n, F, a)
      [] name = "invert_or_zero" -> invert_or_zero(n, F, a)

C12_LaneIndependent ==
    (/\ pc = "done" /\ ~panicked
     /\ op \in {"mul", "square", "mul_alpha", "invert_or_zero"}) =>
        \A i \in Lanes(ubits, L) : \A fill \in {0, 1} :
            Lane(L, i, ret[1]) =
                Lane(L, i, Apply(op, ubits, field,
                                 OtherLanes(ubits, L, i, arg_a, fill),
                                 OtherLanes(ubits, L, i, arg_b, fill)))

(* invert_or_zero on 4-bit lanes of u16 where the lane above lane 0 has a  *)
(* nonzero low half, which the unmasked shift moves into lane 0.           *)
C12_Witness ==
    /\ Returned("invert_or_zero") /\ ubits = 4 /\ field = Tower(1)
    /\ Low(L, Lane(L, 1, arg_a)) # 0
    /\ Lane(L, 0, arg_a) > 1 /\ Lane(L, 0, ret[1]) > 1
    /\ Lane(L, 0, ret[1]) # Lane(L, 1, ret[1])

(***************************************************************************)
(* C13: for a circuit whose ExprIds are all smaller than the index of the  *)
(* expression using them, the value evaluate(q) returns depends only on    *)
(* the circuit and q: on the scratch buffer left by any earlier calls,     *)
(* successful or failed, it is the value computed on a freshly zeroed      *)
(* buffer.                                                                 *)
(***************************************************************************)
FreshBuffer(es) == [i \in 1..Len(es) |-> P_zero]

FreshValue(es, q) == evaluate_loop(es, q, FreshBuffer(es), 1)[Len(es)]

C13_EvaluateIgnoresHistory ==
    (result.tag = "Ok" /\ new_debug_assert(exprs)) =>
        result.value = FreshValue(exprs, query)

(* A successful call on a buffer an earlier call left with other values in *)
(* every slot, the top one included.                                       *)
C13_Witness ==
    /\ result.tag = "Ok" /\ Len(exprs) = MaxExprs /\ new_debug_assert(exprs)
    /\ exprs[Len(exprs)].tag \in {"Add", "Mul", "Pow"}
    /\ stale # <<>>
    /\ \A i \in 1..Len(exprs) : stale[i] # P_zero /\ stale[i] # evals[i]
    /\ result.value # P_zero

(***************************************************************************)
(* C14: for every underlier a and every lane level below the underlier's   *)
(* log bit-width, xor_adjacent(a) holds, for every even j, the XOR of      *)
(* lanes j and j+1 of a in lane j and in lane j+1; it equals c XOR d for   *)
(* (c, d) = interleave(a, a) at the same level.                            *)
(***************************************************************************)
C14_XorAdjacentPairs ==
    Returned("xor_adjacent") =>
        LET l == field.TOWER_LEVEL
            cd == interleave(ubits, field, arg_a, arg_a)
        IN  /\ \A j \in {i \in Lanes(ubits, l) : i % 2 = 0} :
                   /\ Lane(l, j, ret[1]) = XOR(Lane(l, j, arg_a), Lane(l, j + 1, arg_a))
                   /\ Lane(l, j + 1, ret[1]) = Lane(l, j, ret[1])
            /\ ret[1] = XOR(cd[1], cd[2])

C14_Witness ==
    /\ Returned("xor_adjacent") /\ ubits = 4 /\ field = Tower(1)
    /\ \A j \in {0, 2, 4, 6} :
           /\ Lane(1, j, arg_a) # 0 /\ Lane(1, j + 1, arg_a) # 0
           /\ Lane(1, j, ret[1]) # 0
    /\ Lane(1, 0, ret[1]) # Lane(1, 2, ret[1])

====
